---- MODULE Spec2Model ----
(***************************************************************************)
(* Model of the data source ibm_is_vpc_address_prefix                      *)
(* (ibm/service/vpc/data_source_ibm_is_vpc_address_prefix.go).             *)
(*                                                                         *)
(* One read of the data source is modelled: the schema's ExactlyOneOf      *)
(* validation of the configuration, then dataSourceIBMIsVPCAddressPrefix-  *)
(* Read, one step per remote request (the VPC service answers each request *)
(* with any page, any next reference, or an error), then the flattening of *)
(* the resolved address prefix into the resource data.                     *)
(*                                                                         *)
(* Fields the VPC API declares required (a VPC's id and name, an address   *)
(* prefix's id, name, cidr, has_subnets, href, is_default) are present in  *)
(* every record; the optional ones (the collection's next reference, the   *)
(* zone reference and its two fields, created_at) may be nil.              *)
(* d.Set is given values of the schema's types and succeeds; its error     *)
(* returns (lines 201-235) are not taken. The locals start and allrecs of  *)
(* the two lookup blocks share one variable each, the VPC block's being    *)
(* dropped where its scope ends (line 148).                                *)
(***************************************************************************)
EXTENDS Naturals, Sequences, FiniteSets, TLC

VARIABLES
    cfg,            \* the configuration block: attribute -> value, or Unset
    pc,             \* position of the read
    vpc_id,         \* local vpc_id (line 109, reassigned line 137)
    start,          \* local start of the lookup block being executed
    allrecs,        \* local allrecs of the lookup block being executed
    addressPrefix,  \* local addressPrefix: <<>> is nil, <<r>> points to r
    dId,            \* d.Id(): "" while unset
    dAttrs,         \* the attributes written with d.Set: key -> value
    diag,           \* the diagnostics returned by the read
    calls           \* the requests the lookup block in scope has sent, with
                    \* the answer to each (what a recording test double of
                    \* vpcClient would hold)

vars == <<cfg, pc, vpc_id, start, allrecs, addressPrefix, dId, dAttrs, diag, calls>>

----------------------------------------------------------------------------
(* Bounds of the model *)

\* requests one lookup loop may send; the page answering the last one has
\* no next reference
MaxCalls == 3
\* records the service holds in one collection (over all of its pages)
MaxRecs == 3

----------------------------------------------------------------------------
(* Values *)

\* a nil pointer (*string, *strfmt.DateTime, the collection's Next)
Nil == "<nil>"
\* an attribute the configuration does not mention
Unset == "<unset>"

Cursors == {"c1", "c2"}

\* vpcv1.VPC, the fields the read uses
Vpcs ==
    { [ID |-> "v1", Name |-> "alpha"],
      [ID |-> "v2", Name |-> "alpha"],
      [ID |-> "v3", Name |-> "beta"] }

\* vpcv1.ZoneReference behind a pointer: <<>> is nil
ZoneRef(h, n) == << [Href |-> h, Name |-> n] >>

\* vpcv1.AddressPrefix
Prefix(id, name, created, zone) ==
    [ID |-> id, Name |-> name, CIDR |-> "10.0.0.0/24", CreatedAt |-> created,
     HasSubnets |-> FALSE, Href |-> "href-" \o id, IsDefault |-> FALSE,
     Zone |-> zone]

\* the address prefixes a list answer may hold
ListedPrefixes ==
    { Prefix("p1", "alpha", "2021-01-01T00:00:00Z", <<>>),
      Prefix("p2", "alpha", Nil, ZoneRef("href-z1", "us-south-1")),
      Prefix("p3", "beta", "2021-01-01T00:00:00Z", ZoneRef(Nil, "us-south-2")) }

\* the address prefixes a get answer may hold
Prefixes ==
    ListedPrefixes \cup
    { Prefix("p4", "beta", Nil, ZoneRef("href-z3", Nil)),
      Prefix("p5", "alpha", Nil, ZoneRef(Nil, Nil)) }

\* causes of a failed request: the service or the transport, or the
\* caller's context being cancelled
Causes == {"server", "canceled"}

IdValues == {Unset, "", "id-1"}
NameValues == {Unset, "alpha"}

Configs ==
    [vpc : IdValues, vpc_name : NameValues,
     address_prefix : IdValues, address_prefix_name : NameValues]

\* the pages of at most n records of U
Pages(U, n) == UNION { [1..k -> U] : k \in 0..n }

NoDiag == [kind |-> "none", op |-> "", key |-> "", cause |-> ""]

----------------------------------------------------------------------------
(* The schema and the helpers *)

\* d.Get(key).(string): the zero value when the attribute is not set
Get(c, key) == IF c[key] = Unset THEN "" ELSE c[key]

\* mutant: the pair declared AtLeastOneOf
AtLeastOneOf(c, a, b) == (c[a] /= Unset) \/ (c[b] /= Unset)

\* ExactlyOneOf: []string{a, b} as declared on both a and b: exactly one of
\* the two is specified in the configuration
ExactlyOneOf(c, a, b) == (c[a] /= Unset) /= (c[b] /= Unset)

\* the schema's validation of a configuration
SchemaValid(c) ==
    /\ ExactlyOneOf(c, "vpc", "vpc_name")
    /\ ExactlyOneOf(c, "address_prefix", "address_prefix_name")

\* flex.GetNext: the start token of the collection's next reference, ""
\* when the reference is nil
GetNext(next) == IF next = Nil THEN "" ELSE next

\* flex.DateTimeToString: "" for a nil date
DateTimeToString(dt) == IF dt = Nil THEN "" ELSE dt

\* the name scan of lines 135-141 and 186-192: the index in recs of the
\* record the loop breaks on, scanning from index i; 0 when it runs off the
\* end (found stays false)
RECURSIVE ScanFrom(_, _, _)
ScanFrom(recs, name, i) ==
    IF i > Len(recs) THEN 0
    ELSE IF recs[i].Name = name THEN i
    ELSE ScanFrom(recs, name, i + 1)

\* mutant: the scan without its break, the last match wins
ScanNoBreak(recs, name) ==
    IF \E i \in 1..Len(recs) : recs[i].Name = name
    THEN CHOOSE i \in 1..Len(recs) :
            /\ recs[i].Name = name
            /\ \A j \in (i + 1)..Len(recs) : recs[j].Name /= name
    ELSE 0

Scan(recs, name) == ScanFrom(recs, name, 1)

\* mutant: the loop left after its first page
ExhaustedAtOnce(cursor) == TRUE

\* the loop's exit test on the cursor of the page just read
Exhausted(cursor) == cursor = ""

\* dataSourceIBMIsVPCAddressPrefixZoneReferenceToMap
ZoneReferenceToMap(model) ==
    [k \in {x \in {"href", "name"} :
                (x = "href" /\ model.Href /= Nil) \/ (x = "name" /\ model.Name /= Nil)}
        |-> IF k = "href" THEN model.Href ELSE model.Name]

\* mutant: a mapping appended for a nil zone too
FlattenZoneAlways(rec) ==
    IF rec.Zone /= <<>> THEN << ZoneReferenceToMap(rec.Zone[1]) >>
    ELSE << [k \in {} |-> ""] >>

\* lines 225-232: the value set for "zone"
FlattenZone(rec) ==
    IF rec.Zone /= <<>> THEN << ZoneReferenceToMap(rec.Zone[1]) >> ELSE <<>>

\* lines 201-235: the attributes d.Set writes for a resolved address prefix
Flatten(rec) ==
    [cidr |-> rec.CIDR,
     created_at |-> DateTimeToString(rec.CreatedAt),
     has_subnets |-> rec.HasSubnets,
     href |-> rec.Href,
     is_default |-> rec.IsDefault,
     name |-> rec.Name,
     zone |-> FlattenZone(rec)]

\* the diagnostics of a failed request
RemoteError(op, cause) == [kind |-> "RemoteError", op |-> op, key |-> "", cause |-> cause]

\* mutant: the error formatted without the name
NotFoundNoKey(op, name) == [kind |-> "NotFound", op |-> op, key |-> "", cause |-> ""]

\* the diagnostics of a name no record carries
NotFound(op, name) == [kind |-> "NotFound", op |-> op, key |-> name, cause |-> ""]

\* a request and the answer to it
Call(op, cursor, vpc, id, ok, next, recs) ==
    [op |-> op, start |-> cursor, vpc |-> vpc, id |-> id, ok |-> ok,
     next |-> next, recs |-> recs]

----------------------------------------------------------------------------
(* The read *)

Init ==
    /\ cfg \in Configs
    /\ pc = "validate"
    /\ vpc_id = ""
    /\ start = ""
    /\ allrecs = <<>>
    /\ addressPrefix = <<>>
    /\ dId = ""
    /\ dAttrs = <<>>
    /\ diag = NoDiag
    /\ calls = <<>>

\* mutant: the error recorded, the return forgotten
FailNoReturn(dg) ==
    /\ pc' = pc
    /\ diag' = dg

\* return tfErr.GetDiag()
Fail(dg) ==
    /\ pc' = "done"
    /\ diag' = dg

\* the framework validates the configuration against the schema and calls
\* ReadContext only for a valid one
Validate ==
    /\ pc = "validate"
    /\ IF SchemaValid(cfg)
       THEN pc' = "init" /\ diag' = diag
       ELSE /\ pc' = "rejected"
            /\ diag' = [kind |-> "AmbiguousInput", op |-> "validate", key |-> "", cause |-> ""]
    /\ UNCHANGED <<cfg, vpc_id, start, allrecs, addressPrefix, dId, dAttrs, calls>>

\* lines 102-114: the client, the locals, the choice of the first block
InitClient ==
    /\ pc = "init"
    /\ \E ok \in BOOLEAN :
        IF ok
        THEN /\ vpc_id' = Get(cfg, "vpc")
             /\ pc' = IF Get(cfg, "vpc") = "" THEN "listVpcs" ELSE "target"
             /\ diag' = diag
        ELSE /\ Fail([kind |-> "ClientError", op |-> "initialize-client", key |-> "", cause |-> "server"])
             /\ vpc_id' = vpc_id
    /\ UNCHANGED <<cfg, start, allrecs, addressPrefix, dId, dAttrs, calls>>

\* lines 118-121: the options are built anew in every turn of the loop and
\* Start is set when start is not empty
FreshStart == IF start /= "" THEN start ELSE ""

\* lines 166-172: the options are built once, before the loop, and Start is
\* overwritten when start is not empty; else it keeps what it held
ReusedStart ==
    IF start /= "" THEN start
    ELSE IF calls = <<>> THEN "" ELSE calls[Len(calls)].start

\* one turn of a list loop (lines 117-133, 169-184): the request carries
\* reqStart; an error returns; else the cursor is taken from the answer, the
\* page appended, and the loop left on an empty cursor
ListStep(op, universe, reqStart, vpc, loopPc, scanPc) ==
    /\ Len(calls) < MaxCalls
    /\ \/ \E cause \in Causes :
            /\ calls' = Append(calls, Call(op, reqStart, vpc, "", FALSE, Nil, <<>>))
            /\ Fail(RemoteError(op, cause))
            /\ UNCHANGED <<start, allrecs>>
       \/ \E page \in Pages(universe, MaxRecs - Len(allrecs)),
             next \in (IF Len(calls) + 1 = MaxCalls THEN {Nil} ELSE {Nil} \cup Cursors) :
            /\ calls' = Append(calls, Call(op, reqStart, vpc, "", TRUE, next, page))
            /\ start' = GetNext(next)
            /\ allrecs' = allrecs \o page
            /\ pc' = IF Exhausted(GetNext(next)) THEN scanPc ELSE loopPc
            /\ diag' = diag
    /\ UNCHANGED <<cfg, vpc_id, addressPrefix, dId, dAttrs>>

\* lines 117-133
ListVpcs ==
    /\ pc = "listVpcs"
    /\ ListStep("ListVpcs", Vpcs, FreshStart, "", "listVpcs", "scanVpcs")

\* mutant: the not-found check forgotten
ScanVpcsUnchecked ==
    /\ pc = "scanVpcs"
    /\ LET i == Scan(allrecs, Get(cfg, "vpc_name")) IN
        /\ vpc_id' = IF i /= 0 THEN allrecs[i].ID ELSE vpc_id
        /\ pc' = "vpcFound"
        /\ diag' = diag
    /\ UNCHANGED <<cfg, start, allrecs, addressPrefix, dId, dAttrs, calls>>

\* lines 134-147
ScanVpcs ==
    /\ pc = "scanVpcs"
    /\ LET i == Scan(allrecs, Get(cfg, "vpc_name")) IN
        IF i /= 0
        THEN /\ vpc_id' = allrecs[i].ID
             /\ pc' = "vpcFound"
             /\ diag' = diag
        ELSE /\ Fail(NotFound("ListVpcs", Get(cfg, "vpc_name")))
             /\ vpc_id' = vpc_id
    /\ UNCHANGED <<cfg, start, allrecs, addressPrefix, dId, dAttrs, calls>>

\* line 148: the block's start and allrecs go out of scope
ExitVpcBlock ==
    /\ pc = "vpcFound"
    /\ pc' = "target"
    /\ start' = ""
    /\ allrecs' = <<>>
    /\ calls' = <<>>
    /\ UNCHANGED <<cfg, vpc_id, addressPrefix, dId, dAttrs, diag>>

\* mutant: d.SetId(address_prefix_id) before the request
GetVPCAddressPrefixSetsId ==
    /\ pc = "target"
    /\ Get(cfg, "address_prefix") /= ""
    /\ dId' = Get(cfg, "address_prefix")
    /\ \/ \E cause \in Causes :
            /\ calls' = Append(calls, Call("GetVPCAddressPrefix", "", vpc_id,
                                           Get(cfg, "address_prefix"), FALSE, Nil, <<>>))
            /\ Fail(RemoteError("GetVPCAddressPrefix", cause))
            /\ addressPrefix' = addressPrefix
       \/ \E rec \in Prefixes :
            /\ calls' = Append(calls, Call("GetVPCAddressPrefix", "", vpc_id,
                                           Get(cfg, "address_prefix"), TRUE, Nil, <<rec>>))
            /\ addressPrefix' = <<rec>>
            /\ pc' = "flatten"
            /\ diag' = diag
    /\ UNCHANGED <<cfg, vpc_id, start, allrecs, dAttrs>>

\* lines 149-162
GetVPCAddressPrefix ==
    /\ pc = "target"
    /\ Get(cfg, "address_prefix") /= ""
    /\ \/ \E cause \in Causes :
            /\ calls' = Append(calls, Call("GetVPCAddressPrefix", "", vpc_id,
                                           Get(cfg, "address_prefix"), FALSE, Nil, <<>>))
            /\ Fail(RemoteError("GetVPCAddressPrefix", cause))
            /\ addressPrefix' = addressPrefix
       \/ \E rec \in Prefixes :
            /\ calls' = Append(calls, Call("GetVPCAddressPrefix", "", vpc_id,
                                           Get(cfg, "address_prefix"), TRUE, Nil, <<rec>>))
            /\ addressPrefix' = <<rec>>
            /\ pc' = "flatten"
            /\ diag' = diag
    /\ UNCHANGED <<cfg, vpc_id, start, allrecs, dId, dAttrs>>

\* mutant: the else of line 163 missing, the list runs whatever the id
ListVPCAddressPrefixesNoElse ==
    /\ pc \in {"target", "listPrefixes"}
    /\ ListStep("ListVPCAddressPrefixes", ListedPrefixes, ReusedStart, vpc_id,
                "listPrefixes", "scanPrefixes")

\* lines 163-184
ListVPCAddressPrefixes ==
    /\ \/ pc = "target" /\ Get(cfg, "address_prefix") = ""
       \/ pc = "listPrefixes"
    /\ ListStep("ListVPCAddressPrefixes", ListedPrefixes, ReusedStart, vpc_id,
                "listPrefixes", "scanPrefixes")

\* lines 185-198
ScanPrefixes ==
    /\ pc = "scanPrefixes"
    /\ LET i == Scan(allrecs, Get(cfg, "address_prefix_name")) IN
        IF i /= 0
        THEN /\ addressPrefix' = << allrecs[i] >>
             /\ pc' = "flatten"
             /\ diag' = diag
        ELSE /\ Fail(NotFound("ListVPCAddressPrefixes", Get(cfg, "address_prefix_name")))
             /\ addressPrefix' = addressPrefix
    /\ UNCHANGED <<cfg, vpc_id, start, allrecs, dId, dAttrs, calls>>

\* lines 200-237: d.SetId and the d.Set of every computed attribute
SetAttributes ==
    /\ pc = "flatten"
    /\ dId' = addressPrefix[1].ID
    /\ dAttrs' = Flatten(addressPrefix[1])
    /\ pc' = "done"
    /\ UNCHANGED <<cfg, vpc_id, start, allrecs, addressPrefix, diag, calls>>

Next ==
    \/ Validate
    \/ InitClient
    \/ ListVpcs
    \/ ScanVpcs
    \/ ExitVpcBlock
    \/ GetVPCAddressPrefix
    \/ ListVPCAddressPrefixes
    \/ ScanPrefixes
    \/ SetAttributes

Spec == Init /\ [][Next]_vars

----------------------------------------------------------------------------
(* What the properties speak of *)

ListOps == {"ListVpcs", "ListVPCAddressPrefixes"}
PrefixOps == {"ListVPCAddressPrefixes", "GetVPCAddressPrefix"}

\* the requests of kind op the block in scope has sent
CountOp(op) == Cardinality({i \in 1..Len(calls) : calls[i].op = op})

\* the cursor an answer returned
Returned(i) == GetNext(calls[i].next)

\* the requests in scope are those of a name lookup
NameLookup == calls /= <<>> /\ calls[1].op \in ListOps

\* the name that lookup searches for
SearchName ==
    IF calls[1].op = "ListVpcs" THEN Get(cfg, "vpc_name")
    ELSE Get(cfg, "address_prefix_name")

\* page i holds a record of that name
PageMatches(i) == \E j \in 1..Len(calls[i].recs) : calls[i].recs[j].Name = SearchName

\* every request of the lookup was answered with a page, the last page
\* without a next cursor
PagesExhausted ==
    /\ \A i \in 1..Len(calls) : calls[i].ok
    /\ Returned(Len(calls)) = ""

\* a name lookup has returned a record: the VPC whose id is now in vpc_id,
\* or the address prefix addressPrefix points to
LookupReturned ==
    /\ NameLookup
    /\ \/ pc = "vpcFound"
       \/ pc \in {"flatten", "done"} /\ addressPrefix /= <<>>

\* rec is what the lookup returned
IsResult(rec) ==
    IF calls[1].op = "ListVpcs" THEN vpc_id = rec.ID ELSE addressPrefix[1] = rec

\* (i, j) comes before (k, l) in API order
Before(i, j, k, l) == i < k \/ (i = k /\ j < l)

Supplied(key) == cfg[key] /= Unset

----------------------------------------------------------------------------
(* C1 *)

\* C1, as claimed: every read with address_prefix set and non-empty sends
\* GetVPCAddressPrefix exactly once and ListVPCAddressPrefixes never.
\* Violated: a read whose client cannot be initialised, or whose VPC name
\* lookup fails, ends without any address prefix request.
C1_EveryReadFetchesOnce ==
    (pc = "done" /\ Get(cfg, "address_prefix") /= "") =>
        /\ CountOp("GetVPCAddressPrefix") = 1
        /\ CountOp("ListVPCAddressPrefixes") = 0

\* C1, amended: with address_prefix set and non-empty the read never sends
\* ListVPCAddressPrefixes and sends GetVPCAddressPrefix at most once; and a
\* read that has got past target resolution with the VPC id known (the
\* client was initialised, the VPC was given or found) has sent it exactly
\* once, whatever the service answered.
C1_DirectFetchOnce ==
    Get(cfg, "address_prefix") /= "" =>
        /\ CountOp("ListVPCAddressPrefixes") = 0
        /\ CountOp("GetVPCAddressPrefix") <= 1
        /\ (pc \in {"flatten", "done"} /\ vpc_id /= "") =>
                CountOp("GetVPCAddressPrefix") = 1

\* a read by vpc_name and address_prefix whose get failed
C1_Witness ==
    /\ pc = "done"
    /\ cfg.vpc_name = "alpha"
    /\ Get(cfg, "address_prefix") /= ""
    /\ vpc_id /= ""
    /\ Len(calls) = 1
    /\ calls[1].op = "GetVPCAddressPrefix"
    /\ ~calls[1].ok

----------------------------------------------------------------------------
(* C2 *)

\* C2, as claimed: in a name lookup the first list request carries the empty
\* cursor, every later one the cursor the page before it returned, the
\* requests go on until a page returns an empty cursor, and no non-empty
\* cursor is sent twice. Violated: the loop sends whatever cursor the page
\* returned, also one it has sent before.
C2_CursorChain ==
    NameLookup =>
        /\ calls[1].start = ""
        /\ \A i \in 2..Len(calls) :
                /\ calls[i].start = Returned(i - 1)
                /\ calls[i].start /= ""
        /\ \A i, j \in 1..Len(calls) :
                (i < j /\ calls[j].start /= "") => calls[i].start /= calls[j].start
        /\ (pc \notin {"listVpcs", "listPrefixes"} /\ calls[Len(calls)].ok) =>
                Returned(Len(calls)) = ""

\* C2, what the loop does keep: the claim without the clause on repeated
\* cursors
C2_ChainWithoutRepeatClause ==
    NameLookup =>
        /\ calls[1].start = ""
        /\ \A i \in 2..Len(calls) :
                /\ calls[i].start = Returned(i - 1)
                /\ calls[i].start /= ""
        /\ (pc \notin {"listVpcs", "listPrefixes"} /\ calls[Len(calls)].ok) =>
                Returned(Len(calls)) = ""

----------------------------------------------------------------------------
(* C3 *)

\* the first page holding a record of the name searched for
FirstMatchPage ==
    CHOOSE k \in 1..Len(calls) :
        PageMatches(k) /\ \A i \in 1..(k - 1) : ~PageMatches(i)

\* C3, as claimed: a lookup whose first match lies on page k returns after
\* exactly k list requests. Violated: the loop reads every page before it
\* scans for the name.
C3_StopsOnFirstMatch ==
    LookupReturned => Len(calls) = FirstMatchPage

\* C3, amended: a name lookup scans only after it has read every page. When
\* every request succeeds and the first record of the requested name lies on
\* page k of n, the lookup returns a record of that name from page k and has
\* sent exactly n list requests: every page but the last returned a cursor,
\* the last returned none. It ends in NotFound only when no page holds the
\* name.
C3_ReturnsFirstMatchAfterAllPages ==
    /\ LookupReturned =>
        /\ PagesExhausted
        /\ \A i \in 1..(Len(calls) - 1) : Returned(i) /= ""
        /\ \E k \in 1..Len(calls) :
            /\ k = FirstMatchPage
            /\ \E j \in 1..Len(calls[k].recs) :
                /\ calls[k].recs[j].Name = SearchName
                /\ IsResult(calls[k].recs[j])
    /\ (NameLookup /\ pc = "done" /\ diag.kind = "NotFound") =>
        \A i \in 1..Len(calls) : ~PageMatches(i)

\* a VPC found on the first of three pages, after three requests
C3_Witness ==
    /\ pc = "vpcFound"
    /\ Len(calls) = 3
    /\ FirstMatchPage = 1

----------------------------------------------------------------------------
(* C4 *)

\* C4: a name lookup whose requests all succeeded, whose last page returned
\* no cursor and none of whose pages holds a record of the requested name
\* ends, once it has scanned, in a NotFound error that carries the name; no
\* record, no VPC id and no resource id come out of it.
C4_NotFoundCarriesName ==
    ( /\ NameLookup
      /\ PagesExhausted
      /\ \A i \in 1..Len(calls) : ~PageMatches(i)
      /\ pc \notin {"scanVpcs", "scanPrefixes"} ) =>
        /\ pc = "done"
        /\ diag.kind = "NotFound"
        /\ diag.key = SearchName
        /\ diag.op = calls[1].op
        /\ addressPrefix = <<>>
        /\ dId = ""
        /\ (calls[1].op = "ListVpcs" => vpc_id = "")

\* two pages of other names, then NotFound for "alpha"
C4_Witness ==
    /\ pc = "done"
    /\ NameLookup
    /\ Len(calls) = 2
    /\ Len(calls[1].recs) > 0
    /\ Len(calls[2].recs) > 0
    /\ diag.kind = "NotFound"
    /\ diag.key = "alpha"

----------------------------------------------------------------------------
(* C5 *)

\* C5: the record a name lookup returns is the first of the requested name
\* in API order: no record on an earlier page, and none earlier on its own
\* page, has that name.
C5_FirstInApiOrder ==
    LookupReturned =>
        \E i \in 1..Len(calls) : \E j \in 1..Len(calls[i].recs) :
            /\ calls[i].recs[j].Name = SearchName
            /\ IsResult(calls[i].recs[j])
            /\ \A k \in 1..Len(calls) : \A l \in 1..Len(calls[k].recs) :
                    Before(k, l, i, j) => calls[k].recs[l].Name /= SearchName

\* an address prefix returned although another of the same name and another
\* id follows it, on its own page and on a later one
C5_Witness ==
    /\ LookupReturned
    /\ calls[1].op = "ListVPCAddressPrefixes"
    /\ Len(calls) = 2
    /\ Len(calls[1].recs) = 2
    /\ calls[1].recs[1].Name = SearchName
    /\ calls[1].recs[2].Name = SearchName
    /\ calls[1].recs[2].ID /= calls[1].recs[1].ID
    /\ Len(calls[2].recs) = 1
    /\ calls[2].recs[1].Name = SearchName
    /\ calls[2].recs[1].ID /= calls[1].recs[1].ID
    /\ addressPrefix[1] = calls[1].recs[1]

----------------------------------------------------------------------------
(* C6 *)

\* C6: a request that failed is the last request sent: the read is over, its
\* outcome is the remote error of that request with its cause, and no
\* resource id was set; and from then on nothing changes.
C6_ErrorAborts ==
    /\ [](\A i \in 1..Len(calls) :
            ~calls[i].ok =>
                /\ i = Len(calls)
                /\ pc = "done"
                /\ diag.kind = "RemoteError"
                /\ diag.op = calls[i].op
                /\ dId = "")
    /\ [][diag.kind = "RemoteError" => calls' = calls /\ pc' = pc /\ diag' = diag]_vars

\* the second list request of the address prefix lookup cancelled
C6_Witness ==
    /\ Len(calls) = 2
    /\ calls[2].op = "ListVPCAddressPrefixes"
    /\ calls[1].ok
    /\ ~calls[2].ok
    /\ diag.cause = "canceled"
    /\ pc = "done"

----------------------------------------------------------------------------
(* C7 *)

\* C7: a configuration that supplies both or neither of vpc and vpc_name, or
\* both or neither of address_prefix and address_prefix_name, never gets
\* past validation: it is rejected, the read is not entered, no request is
\* sent and nothing is resolved.
C7_RejectedBeforeResolution ==
    ( \/ Supplied("vpc") = Supplied("vpc_name")
      \/ Supplied("address_prefix") = Supplied("address_prefix_name") ) =>
        /\ pc \in {"validate", "rejected"}
        /\ (pc = "rejected" => diag.kind = "AmbiguousInput")
        /\ calls = <<>>
        /\ vpc_id = ""
        /\ addressPrefix = <<>>
        /\ dId = ""

\* a configuration with both vpc and vpc_name, rejected
C7_Witness ==
    /\ pc = "rejected"
    /\ Supplied("vpc")
    /\ Supplied("vpc_name")
    /\ Supplied("address_prefix") /= Supplied("address_prefix_name")

----------------------------------------------------------------------------
(* C8 *)

\* C8: a read that succeeded has set "zone": to the empty list when the
\* record's zone is nil, else to a list of one mapping whose keys are those
\* of href and name that are not nil in the zone, each with the zone's
\* value.
C8_ZoneAlwaysEmitted ==
    (pc = "done" /\ diag.kind = "none") =>
        /\ "zone" \in DOMAIN dAttrs
        /\ LET z == addressPrefix[1].Zone IN
            /\ z = <<>> => dAttrs.zone = <<>>
            /\ z /= <<>> =>
                /\ Len(dAttrs.zone) = 1
                /\ "href" \in DOMAIN dAttrs.zone[1] <=> z[1].Href /= Nil
                /\ "name" \in DOMAIN dAttrs.zone[1] <=> z[1].Name /= Nil
                /\ DOMAIN dAttrs.zone[1] \subseteq {"href", "name"}
                /\ "href" \in DOMAIN dAttrs.zone[1] => dAttrs.zone[1]["href"] = z[1].Href
                /\ "name" \in DOMAIN dAttrs.zone[1] => dAttrs.zone[1]["name"] = z[1].Name

\* a record without a zone, flattened
C8_Witness ==
    /\ pc = "done"
    /\ diag.kind = "none"
    /\ addressPrefix /= <<>>
    /\ addressPrefix[1].Zone = <<>>
    /\ dId = addressPrefix[1].ID

----------------------------------------------------------------------------
(* C9 *)

\* C9: the stages run in the order VPC, address prefix, flatten. Every
\* address prefix request carries the non-empty vpc_id of the read, sent
\* when the VPC stage is over; vpc_id is the vpc given or, after a name
\* lookup, the id of the first VPC of that name in API order, and it does
\* not change afterwards; a VPC lookup that ended in an error is followed by
\* no address prefix request; the resource id is set last.
C9_StagesInOrder ==
    /\ [](/\ \A i \in 1..Len(calls) :
                calls[i].op \in PrefixOps =>
                    /\ calls[i].vpc = vpc_id
                    /\ vpc_id /= ""
                    /\ pc \in {"listPrefixes", "scanPrefixes", "flatten", "done"}
          /\ pc = "vpcFound" =>
                \E i \in 1..Len(calls) : \E j \in 1..Len(calls[i].recs) :
                    /\ calls[i].recs[j].Name = Get(cfg, "vpc_name")
                    /\ calls[i].recs[j].ID = vpc_id
                    /\ \A k \in 1..Len(calls) : \A l \in 1..Len(calls[k].recs) :
                            Before(k, l, i, j) =>
                                calls[k].recs[l].Name /= Get(cfg, "vpc_name")
          /\ (pc \in {"target", "listPrefixes", "scanPrefixes", "flatten"}
                    /\ Get(cfg, "vpc") /= "") => vpc_id = cfg.vpc
          /\ (pc = "done" /\ diag.op = "ListVpcs") =>
                /\ vpc_id = ""
                /\ \A i \in 1..Len(calls) : calls[i].op = "ListVpcs"
          /\ dId /= "" => pc = "done" /\ addressPrefix /= <<>>)
    /\ [][(pc \in {"vpcFound", "target", "listPrefixes", "scanPrefixes", "flatten"})
            => (vpc_id' = vpc_id)]_vars

\* the address prefix list sent for the VPC found by name
C9_Witness ==
    /\ pc = "listPrefixes"
    /\ cfg.vpc_name = "alpha"
    /\ Len(calls) = 1
    /\ calls[1].op = "ListVPCAddressPrefixes"
    /\ calls[1].vpc = "v2"

----------------------------------------------------------------------------
(* C10 *)

\* C10: a read that ended in an error has set neither the resource id nor an
\* attribute; the id is set only once the read is over with the address
\* prefix resolved, and is that record's id.
C10_NoPartialResult ==
    /\ diag.kind /= "none" => dId = "" /\ DOMAIN dAttrs = {}
    /\ pc /= "done" => dId = "" /\ DOMAIN dAttrs = {}
    /\ dId /= "" =>
        /\ addressPrefix /= <<>>
        /\ dId = addressPrefix[1].ID
        /\ diag.kind = "none"

\* the address prefix name not found, after the VPC was found by name
C10_Witness ==
    /\ pc = "done"
    /\ cfg.vpc_name = "alpha"
    /\ vpc_id /= ""
    /\ diag.kind = "NotFound"
    /\ diag.op = "ListVPCAddressPrefixes"
    /\ dId = ""

====
